---- MODULE Spec2Model ----
(***************************************************************************)
(* The LD_PRELOAD connect()/gethostbyname() wrappers of ARIADNE-S-THREAD.  *)
(* Three builds of the wrapper exist, one per source file:                 *)
(*   "Only" = ConnetcInterceptionOnly.c     (IPv4 literal request)         *)
(*   "DNS"  = ConnectWithDNSInterception.c  (domain-name request)          *)
(*   "One"  = 1.c                           (IPv4 literal request)         *)
(* Every application thread calls connect() on a socket of its own; the    *)
(* proxy and the kernel are the environment.  Each system call is a step.  *)
(***************************************************************************)
EXTENDS Integers, Sequences, FiniteSets, TLC

(* ------------------------------------------------------------------ *)
(* Program constants                                                   *)
(* ------------------------------------------------------------------ *)

\* "127.0.0.1" as its characters (ASCII codes)
TOR_SOCKS_ADDR == <<49, 50, 55, 46, 48, 46, 48, 46, 49>>

TOR_SOCKS_PORT == 9050

SOCKS_CMD_CONNECT == 1

SOCKS_ATYP_IPV4 == 1

SOCKS_ATYP_DOMAINNAME == 3

SOCKS_VERSION == 5

SOCKS_REPLY_SUCCESS == 0

socks5_initial_handshake == <<5, 1, 0>>

socks5_handshake_success == <<5, 0>>

\* the variants of the wrapper (one per source file)
Variants == {"Only", "DNS", "One"}

(* ------------------------------------------------------------------ *)
(* Bounds of the exploration                                           *)
(* ------------------------------------------------------------------ *)

\* the sockets (file descriptors) the application connects, one thread each
Socks == {3, 4}

\* reply codes the proxy may answer with: 0..MaxReplyCode and 255
MaxReplyCode == 9

\* a truncated connect reply carries 1..MaxShortReply bytes
MaxShortReply == 3

(* ------------------------------------------------------------------ *)
(* libc conversions, modelled by what they compute                     *)
(* ------------------------------------------------------------------ *)

\* size_t is unsigned: a negative ssize_t wraps to a huge positive value.
\* (The true modulus 2^64 does not fit TLC's integers; the comparisons made on
\* bytes_read only need "huge, non-negative, different from every byte count".)
SizeMod == 2^30

ToSizeT(r) == r % SizeMod

\* 16-bit host value -> the two bytes in network order, and back
htons(v) == <<(v \div 256) % 256, v % 256>>

ntohs(b) == b[1] * 256 + b[2]

RECURSIVE Dec(_)
\* decimal rendering of a natural number as ASCII digits
Dec(n) == IF n < 10 THEN <<48 + n>> ELSE Dec(n \div 10) \o <<48 + (n % 10)>>

\* inet_ntop(AF_INET, ...): dotted-decimal text of the 4 address bytes
inet_ntop(a) == Dec(a[1]) \o <<46>> \o Dec(a[2]) \o <<46>> \o Dec(a[3]) \o <<46>> \o Dec(a[4])

RECURSIVE ParseDotted(_, _, _)
\* inet_pton(AF_INET, ...): text -> address bytes (acc = bytes so far, cur = octet being read)
ParseDotted(txt, acc, cur) ==
    IF txt = <<>> THEN Append(acc, cur)
    ELSE IF Head(txt) = 46 THEN ParseDotted(Tail(txt), Append(acc, cur), 0)
    ELSE ParseDotted(Tail(txt), acc, cur * 10 + (Head(txt) - 48))

inet_pton(txt) == ParseDotted(txt, <<>>, 0)

\* the proxy endpoint both connect() wrappers build (a struct sockaddr_in)
tor_addr == [family |-> "AF_INET", ip |-> inet_pton(TOR_SOCKS_ADDR), port |-> htons(TOR_SOCKS_PORT)]

(* ------------------------------------------------------------------ *)
(* Inputs                                                              *)
(* ------------------------------------------------------------------ *)

\* destinations the application asks for (sin_addr and sin_port in network order);
\* the thread of each socket has its own
Dests(s) ==
    IF s = 3
    THEN { [family |-> "AF_INET",  ip |-> <<1, 2, 3, 4>>,    port |-> htons(443)],
           [family |-> "AF_INET6", ip |-> <<>>,              port |-> htons(443)] }
    ELSE { [family |-> "AF_INET",  ip |-> <<10, 0, 0, 255>>, port |-> htons(80)],
           [family |-> "AF_UNIX",  ip |-> <<>>,              port |-> <<>>] }

NoAddr == [family |-> "none", ip |-> <<>>, port |-> <<>>]

\* names the application resolves, and the address the real resolver returns
HostNames == { <<97, 46, 105, 111>> }

DnsAnswer(name) == <<1, 2, 3, 4>>

\* results of a send() of n bytes: an error, a short count, or all of it
SendResults(n) == {-1, n - 1, n}

Prefix(seq, k) == SubSeq(seq, 1, IF k < Len(seq) THEN k ELSE Len(seq))

Drop(seq, k) == SubSeq(seq, k + 1, Len(seq))

\* what the proxy may write in answer to the handshake
HsChunks == { <<5, 0>>, <<5, 255>>, <<4, 0>>, <<5>>, <<5, 0, 5, 0>> }

ReplyCodes == (0..MaxReplyCode) \cup {255}

BndAddr(atyp) ==
    CASE atyp = 1 -> <<0, 0, 0, 0>>
      [] atyp = 3 -> <<3, 97, 46, 98>>
      [] atyp = 4 -> <<0, 0, 0, 0, 0, 0, 0, 0, 0, 0, 0, 0, 0, 0, 0, 1>>

ProxyReply(ver, code, atyp) == <<ver, code, 0, atyp>> \o BndAddr(atyp) \o <<0, 0>>

\* what the proxy may write in answer to the connect request
ReplyChunks ==
    { ProxyReply(5, c, 1) : c \in ReplyCodes }
    \cup { ProxyReply(5, 0, 3), ProxyReply(5, 0, 4), ProxyReply(4, 0, 1) }
    \cup { Prefix(ProxyReply(5, c, 1), k) : c \in {0, 5}, k \in 1..MaxShortReply }

(* ------------------------------------------------------------------ *)
(* State                                                               *)
(* ------------------------------------------------------------------ *)

VARIABLES
    variant,             \* which build of the wrapper is preloaded
    libsyms,             \* symbols dlsym(RTLD_NEXT, ...) can find in this process
    real_connect,        \* static pointer: TRUE when set
    real_gethostbyname,  \* static pointer: TRUE when set
    resolved,            \* per thread: <<name, address>> pairs gethostbyname() returned to it
    pc,                  \* per socket: where its connect() call stands
    addr,                \* per socket: the sockaddr the application passed
    hostname,            \* per socket: hostname_buffer of connect() (DNS build)
    buffer,              \* per socket: the written prefix of char buffer[256]
    inbound,             \* per socket: bytes the proxy wrote, not yet received
    rxState,             \* per socket: "open", "eof" (proxy closed) or "err" (reset)
    fd,                  \* per socket: "unconnected", "connected" or "closed"
    calls,               \* per socket: the system calls made on it, in order
    diag,                \* per socket: lines written to stderr
    ret,                 \* per socket: value connect() returned
    errno                \* per thread: errno after connect() returned

vars == <<variant, libsyms, real_connect, real_gethostbyname, resolved, pc, addr,
          hostname, buffer, inbound, rxState, fd, calls, diag, ret, errno>>

globals == <<variant, libsyms, real_connect, real_gethostbyname, resolved>>

\* one system call as seen from outside: op, argument, result, data moved
Call(op, arg, res, data) == [op |-> op, arg |-> arg, res |-> res, data |-> data]

\* dlsym(RTLD_NEXT, sym) != NULL
dlsym(sym) == sym \in libsyms

Init ==
    /\ variant \in Variants
    /\ libsyms \in SUBSET {"connect", "gethostbyname"}
    /\ (variant # "DNS") => ~("gethostbyname" \in libsyms)
    \* the constructor init_dlsym() has run
    /\ real_connect = dlsym("connect")
    /\ real_gethostbyname = (variant = "DNS" /\ dlsym("gethostbyname"))
    /\ resolved = [s \in Socks |-> {}]
    /\ pc = [s \in Socks |-> "idle"]
    /\ addr = [s \in Socks |-> NoAddr]
    /\ hostname = [s \in Socks |-> <<>>]
    /\ buffer = [s \in Socks |-> <<>>]
    /\ inbound = [s \in Socks |-> <<>>]
    /\ rxState = [s \in Socks |-> "open"]
    /\ fd = [s \in Socks |-> "unconnected"]
    /\ calls = [s \in Socks |-> <<>>]
    /\ diag = [s \in Socks |-> <<>>]
    /\ ret = [s \in Socks |-> "none"]
    /\ errno = [s \in Socks |-> "none"]

(* ------------------------------------------------------------------ *)
(* Helpers shared by the steps                                         *)
(* ------------------------------------------------------------------ *)

\* errno left by the kernel when a system call on the socket fails
KernelErrno == "ECONNREFUSED"

\* memcpy/recv of data to the start of the buffer: the rest keeps its old bytes
Overwrite(buf, data) == data \o Drop(buf, Len(data))

\* connect() returns v with errno e, after the system calls cs and stderr lines ms
Return(s, v, e, cs, ms, newfd) ==
    /\ pc' = [pc EXCEPT ![s] = "done"]
    /\ ret' = [ret EXCEPT ![s] = v]
    /\ errno' = [errno EXCEPT ![s] = e]
    /\ calls' = [calls EXCEPT ![s] = calls[s] \o cs]
    /\ diag' = [diag EXCEPT ![s] = diag[s] \o ms]
    /\ fd' = [fd EXCEPT ![s] = newfd]

\* a failure path on which both the negotiation and connect() close the socket
NegotiationFailedClosesTwice(s, cs, ms) ==
    Return(s, -1, "EHOSTUNREACH",
           cs \o <<Call("close", <<>>, 0, <<>>), Call("close", <<>>, -1, <<>>)>>, ms, "closed")

\* a failure after which the attempt starts over with a new handshake
NegotiationFailedRetries(s, cs, ms) ==
    /\ pc' = [pc EXCEPT ![s] = "hs_send"]
    /\ calls' = [calls EXCEPT ![s] = calls[s] \o cs]
    /\ diag' = [diag EXCEPT ![s] = diag[s] \o ms]
    /\ UNCHANGED <<ret, errno, fd>>

\* the negotiation returned -1: connect() closes the socket and reports EHOSTUNREACH
NegotiationFailed(s, cs, ms) ==
    Return(s, -1, "EHOSTUNREACH", cs \o <<Call("close", <<>>, 0, <<>>)>>, ms, "closed")

\* the negotiation step is over and the next one is at
Advance(s, next, cs) ==
    /\ pc' = [pc EXCEPT ![s] = next]
    /\ calls' = [calls EXCEPT ![s] = calls[s] \o cs]
    /\ UNCHANGED <<ret, errno, diag, fd>>

\* init_dlsym(): look both symbols up again
init_dlsym ==
    /\ real_connect' = dlsym("connect")
    /\ real_gethostbyname' = (variant = "DNS" /\ dlsym("gethostbyname"))

(* ------------------------------------------------------------------ *)
(* connect(): entry, passthrough, connection to the proxy              *)
(* ------------------------------------------------------------------ *)

\* real_connect is still NULL after init_dlsym(): EFAULT
ConnectNoSymbol(s, d) ==
    /\ pc[s] = "idle"
    /\ ~real_connect
    /\ init_dlsym
    /\ ~real_connect'
    /\ addr' = [addr EXCEPT ![s] = d]
    /\ Return(s, -1, "EFAULT", <<>>, <<"no real connect">>, fd[s])
    /\ UNCHANGED <<variant, libsyms, resolved, hostname, buffer, inbound, rxState>>

\* Only/DNS builds: a non-IPv4 destination goes to the real connect() as it came
ConnectPassthrough(s, d, r) ==
    /\ pc[s] = "idle"
    /\ real_connect
    /\ variant \in {"Only", "DNS"}
    /\ d.family # "AF_INET"
    /\ addr' = [addr EXCEPT ![s] = d]
    /\ Return(s, r, IF r < 0 THEN KernelErrno ELSE errno[s],
              <<Call("connect", d, r, <<>>)>>, <<>>,
              IF r < 0 THEN fd[s] ELSE "connected")
    /\ UNCHANGED <<globals, hostname, buffer, inbound, rxState>>

\* 1.c: a non-IPv4 destination is refused with EAFNOSUPPORT
ConnectUnsupported(s, d) ==
    /\ pc[s] = "idle"
    /\ real_connect
    /\ variant = "One"
    /\ d.family # "AF_INET"
    /\ addr' = [addr EXCEPT ![s] = d]
    /\ Return(s, -1, "EAFNOSUPPORT", <<>>, <<>>, fd[s])
    /\ UNCHANGED <<globals, hostname, buffer, inbound, rxState>>

\* a wrapper that forgets the redirection and connects where the application asked
RealConnectTargetDirect(d) == d

\* the endpoint handed to real_connect() for an IPv4 destination d
RealConnectTarget(d) == tor_addr

\* IPv4 destination: connect the socket to the proxy instead
ConnectProxy(s, d, r) ==
    /\ pc[s] = "idle"
    /\ real_connect
    /\ d.family = "AF_INET"
    /\ addr' = [addr EXCEPT ![s] = d]
    /\ LET c == Call("connect", RealConnectTarget(d), r, <<>>) IN
        IF r < 0
        THEN /\ Return(s, -1, KernelErrno, <<c>>, <<"no proxy">>, fd[s])
             /\ UNCHANGED hostname
        ELSE /\ pc' = [pc EXCEPT ![s] = "hs_send"]
             /\ calls' = [calls EXCEPT ![s] = calls[s] \o <<c>>]
             /\ fd' = [fd EXCEPT ![s] = "connected"]
             \* DNS build: hostname_buffer = inet_ntop(sin_addr), which cannot fail here
             /\ hostname' = [hostname EXCEPT ![s] =
                               IF variant = "DNS" THEN inet_ntop(d.ip) ELSE <<>>]
             /\ UNCHANGED <<ret, errno, diag>>
    /\ UNCHANGED <<globals, buffer, inbound, rxState>>

connect(s) ==
    \E d \in Dests(s) :
        \/ ConnectNoSymbol(s, d)
        \/ ConnectUnsupported(s, d)
        \/ \E r \in {0, -1} : ConnectPassthrough(s, d, r) \/ ConnectProxy(s, d, r)

(* ------------------------------------------------------------------ *)
(* The proxy and the kernel's receive queue                            *)
(* ------------------------------------------------------------------ *)

Waiting(s) == pc[s] \in {"hs_recv", "rep_recv"}

\* the proxy answers the message the client is waiting on
ProxyDeliver(s) ==
    /\ Waiting(s) /\ inbound[s] = <<>> /\ rxState[s] = "open"
    /\ \E chunk \in (IF pc[s] = "hs_recv" THEN HsChunks ELSE ReplyChunks) :
          inbound' = [inbound EXCEPT ![s] = chunk]
    /\ UNCHANGED <<globals, pc, addr, hostname, buffer, rxState, fd, calls, diag, ret, errno>>

\* the proxy closes the connection (end of stream) or the connection is reset
ProxyHangup(s) ==
    /\ Waiting(s) /\ inbound[s] = <<>> /\ rxState[s] = "open"
    /\ \E how \in {"eof", "err"} : rxState' = [rxState EXCEPT ![s] = how]
    /\ UNCHANGED <<globals, pc, addr, hostname, buffer, inbound, fd, calls, diag, ret, errno>>

\* recv() blocks until there is data, an end of stream or an error
RecvReady(s) == inbound[s] # <<>> \/ rxState[s] # "open"

\* recv(sockfd, buffer, n, 0): the ssize_t result and the bytes stored
RecvResult(s, n) ==
    IF inbound[s] # <<>>
    THEN [res |-> Len(Prefix(inbound[s], n)), data |-> Prefix(inbound[s], n)]
    ELSE IF rxState[s] = "eof" THEN [res |-> 0, data |-> <<>>]
    ELSE [res |-> -1, data |-> <<>>]

(* ------------------------------------------------------------------ *)
(* perform_socks5_negotiation / perform_socks5_domain_negotiation      *)
(* ------------------------------------------------------------------ *)

\* step 1: send the method-selection message
HandshakeSend(s) ==
    /\ pc[s] = "hs_send"
    /\ \E r \in SendResults(Len(socks5_initial_handshake)) :
        LET c == Call("send", socks5_initial_handshake, r, Prefix(socks5_initial_handshake, r)) IN
        IF r < 0 THEN NegotiationFailed(s, <<c>>, <<>>)
                 ELSE Advance(s, "hs_recv", <<c>>)
    /\ UNCHANGED <<globals, addr, hostname, buffer, inbound, rxState>>

\* a check of the count and the version byte, without the method byte
HandshakeRejectedVersionOnly(bytes_read, buf) == bytes_read # 2 \/ buf[1] # SOCKS_VERSION

\* a check of the byte count alone, without the memcmp
HandshakeRejectedCountOnly(bytes_read, buf) == bytes_read # 2

\* bytes_read != 2 || memcmp(buffer, socks5_handshake_success, 2) != 0
HandshakeRejected(bytes_read, buf) ==
    bytes_read # 2 \/ Prefix(buf, 2) # socks5_handshake_success

\* step 1, second half: recv(sockfd, buffer, 2, 0) and the check of the reply
HandshakeRecv(s) ==
    /\ pc[s] = "hs_recv"
    /\ RecvReady(s)
    /\ LET got == RecvResult(s, 2)
           buf == Overwrite(buffer[s], got.data)
           c   == Call("recv", 2, got.res, got.data)
       IN /\ buffer' = [buffer EXCEPT ![s] = buf]
          /\ inbound' = [inbound EXCEPT ![s] = Drop(inbound[s], Len(got.data))]
          /\ IF HandshakeRejected(ToSizeT(got.res), buf)
             THEN NegotiationFailed(s, <<c>>, <<"SOCKS handshake failed">>)
             ELSE Advance(s, "req_send", <<c>>)
    /\ UNCHANGED <<globals, addr, hostname, rxState>>

\* a request built from one target kept in storage all attempts share
IPv4RequestSharedTarget(target_addr) ==
    LET shared == IF addr[3].family = "AF_INET" THEN addr[3] ELSE target_addr IN
    <<SOCKS_VERSION, SOCKS_CMD_CONNECT, 0, SOCKS_ATYP_IPV4>> \o shared.ip \o shared.port

\* a request whose port bytes are stored low byte first
IPv4RequestPortSwapped(target_addr) ==
    <<SOCKS_VERSION, SOCKS_CMD_CONNECT, 0, SOCKS_ATYP_IPV4>> \o target_addr.ip
        \o <<target_addr.port[2], target_addr.port[1]>>

\* the 10-byte CONNECT request of the IPv4 builds
IPv4Request(target_addr) ==
    <<SOCKS_VERSION, SOCKS_CMD_CONNECT, 0, SOCKS_ATYP_IPV4>> \o target_addr.ip \o target_addr.port

\* a validation that admits every length one byte can hold
HostnameInvalidUpTo255(hostname_len) == hostname_len = 0 \/ hostname_len > 255

\* hostname_len == 0 || hostname_len > 255 - 7
HostnameInvalid(hostname_len) == hostname_len = 0 \/ hostname_len > 255 - 7

\* a request that copies the host-order port of a little-endian machine unconverted
DomainRequestNoHtons(name, port) ==
    <<SOCKS_VERSION, SOCKS_CMD_CONNECT, 0, SOCKS_ATYP_DOMAINNAME, Len(name) % 256>>
        \o name \o <<port % 256, port \div 256>>

\* the CONNECT request of the DNS build; port is in host byte order
DomainRequest(name, port) ==
    <<SOCKS_VERSION, SOCKS_CMD_CONNECT, 0, SOCKS_ATYP_DOMAINNAME, Len(name) % 256>>
        \o name \o htons(port)

\* step 2: validate, build the request in buffer and send it
RequestSend(s) ==
    /\ pc[s] = "req_send"
    /\ IF variant = "DNS"
       THEN IF HostnameInvalid(Len(hostname[s]))
            THEN /\ NegotiationFailed(s, <<>>, <<"Invalid or too long hostname">>)
                 /\ UNCHANGED buffer
            ELSE LET req == DomainRequest(hostname[s], ntohs(addr[s].port))
                     buf == Overwrite(buffer[s], req)
                 IN /\ buffer' = [buffer EXCEPT ![s] = buf]
                    /\ \E r \in SendResults(5 + Len(hostname[s]) + 2) :
                        LET c == Call("send", req, r, Prefix(req, r)) IN
                        IF r < 0 THEN NegotiationFailed(s, <<c>>, <<>>)
                                 ELSE Advance(s, "rep_recv", <<c>>)
       ELSE IF addr[s].family # "AF_INET"
            THEN /\ NegotiationFailed(s, <<>>, <<"Only IPv4 targets supported">>)
                 /\ UNCHANGED buffer
            ELSE LET req == IPv4Request(addr[s])
                     buf == Overwrite(buffer[s], req)
                 IN /\ buffer' = [buffer EXCEPT ![s] = buf]
                    /\ \E r \in SendResults(10) :
                        LET c == Call("send", req, r, Prefix(req, r)) IN
                        IF r < 0 THEN NegotiationFailed(s, <<c>>, <<>>)
                                 ELSE Advance(s, "rep_recv", <<c>>)
    /\ UNCHANGED <<globals, addr, hostname, inbound, rxState>>

\* a check that drops the comparison of the reply code
ReplyRejectedNoCode(bytes_read, buf) == bytes_read < 0

\* bytes_read < 0 || buffer[1] != SOCKS_REPLY_SUCCESS   (bytes_read is a size_t)
ReplyRejected(bytes_read, buf) ==
    bytes_read < 0 \/ buf[2] # SOCKS_REPLY_SUCCESS

\* step 3: recv(sockfd, buffer, 10, 0) and the check of the reply code
ReplyRecv(s) ==
    /\ pc[s] = "rep_recv"
    /\ RecvReady(s)
    /\ LET got == RecvResult(s, 10)
           buf == Overwrite(buffer[s], got.data)
           c   == Call("recv", 10, got.res, got.data)
       IN /\ buffer' = [buffer EXCEPT ![s] = buf]
          /\ inbound' = [inbound EXCEPT ![s] = Drop(inbound[s], Len(got.data))]
          /\ IF ReplyRejected(ToSizeT(got.res), buf)
             THEN NegotiationFailed(s, <<c>>, <<"SOCKS connection request failed", buf[2]>>)
             ELSE Return(s, 0, errno[s], <<c>>, <<>>, fd[s])
    /\ UNCHANGED <<globals, addr, hostname, rxState>>

(* ------------------------------------------------------------------ *)
(* gethostbyname() of the DNS build                                    *)
(* ------------------------------------------------------------------ *)

\* called by the thread of socket s before it connects
gethostbyname(s, name) ==
    /\ variant = "DNS"
    /\ pc[s] = "idle"
    /\ IF real_gethostbyname THEN UNCHANGED <<real_connect, real_gethostbyname>> ELSE init_dlsym
    \* real_gethostbyname ? real_gethostbyname(name) : NULL -- nothing is stored by the wrapper
    /\ resolved' = IF real_gethostbyname'
                   THEN [resolved EXCEPT ![s] = resolved[s] \cup {<<name, DnsAnswer(name)>>}]
                   ELSE resolved
    /\ UNCHANGED <<variant, libsyms, pc, addr, hostname, buffer, inbound, rxState, fd, calls,
                   diag, ret, errno>>

(* ------------------------------------------------------------------ *)
(* Specification                                                       *)
(* ------------------------------------------------------------------ *)

\* the steps of the thread that connects socket s
Thread(s) ==
    \/ connect(s)
    \/ HandshakeSend(s)
    \/ HandshakeRecv(s)
    \/ RequestSend(s)
    \/ ReplyRecv(s)
    \/ \E name \in HostNames : gethostbyname(s, name)

Proxy(s) == ProxyDeliver(s) \/ ProxyHangup(s)

Next ==
    \/ \E s \in Socks : Thread(s)
    \/ \E s \in Socks : Proxy(s)

Spec == Init /\ [][Next]_vars

\* a thread that can take a step eventually takes it; the proxy owes nothing
FairSpec == Spec /\ \A s \in Socks : WF_vars(Thread(s))

(* ------------------------------------------------------------------ *)
(* Vocabulary of the properties                                        *)
(* ------------------------------------------------------------------ *)

Done(s) == pc[s] = "done"

\* the application asked for an IPv4 destination: the attempt is redirected
IPv4Attempt(s) == addr[s].family = "AF_INET"

\* the positions of the calls of one kind in the socket's call sequence
CallsOf(s, op) == { i \in DOMAIN calls[s] : calls[s][i].op = op }

IsHandshakeSend(c) == c.op = "send" /\ c.arg = <<5, 1, 0>>

IsRequestSend(c) == c.op = "send" /\ c.arg # <<5, 1, 0>>

IsAcceptedHandshake(c) == c.op = "recv" /\ c.arg = 2 /\ c.res = 2 /\ c.data = <<5, 0>>

LastCall(s) == calls[s][Len(calls[s])]

\* every send() on the socket so far took the whole message
SendsComplete(s) == \A i \in CallsOf(s, "send") : calls[s][i].res = Len(calls[s][i].arg)

\* what connect() hands back to the application: return value and errno
CallerSees(s) == <<ret[s], errno[s]>>

\* the handshake reply / connect reply the attempt received (<<>> if none)
HandshakeReplyOf(s) ==
    IF \E i \in CallsOf(s, "recv") : calls[s][i].arg = 2
    THEN calls[s][CHOOSE i \in CallsOf(s, "recv") : calls[s][i].arg = 2].data
    ELSE <<>>

ConnectReplyOf(s) ==
    IF \E i \in CallsOf(s, "recv") : calls[s][i].arg = 10
    THEN calls[s][CHOOSE i \in CallsOf(s, "recv") : calls[s][i].arg = 10].data
    ELSE <<>>

(* ------------------------------------------------------------------ *)
(* C1                                                                  *)
(* ------------------------------------------------------------------ *)

\* C1: within one attempt the steps are strictly ordered: the handshake reply is
\* received only right after the handshake was sent, the connect request is sent
\* only right after a 2-byte handshake reply 05 00 was received, and connect()
\* returns 0 for a redirected attempt only after the connect reply was read.
C1_StepsOrdered ==
    \A s \in Socks :
        LET cs == calls[s] IN
        /\ \A i \in DOMAIN cs :
              (cs[i].op = "recv" /\ cs[i].arg = 2) => (i > 1 /\ IsHandshakeSend(cs[i - 1]))
        /\ \A i \in DOMAIN cs :
              IsRequestSend(cs[i]) =>
                  /\ i > 2
                  /\ IsAcceptedHandshake(cs[i - 1])
                  /\ IsHandshakeSend(cs[i - 2])
        /\ (Done(s) /\ IPv4Attempt(s) /\ ret[s] = 0) =>
              /\ Len(cs) > 1
              /\ LastCall(s).op = "recv" /\ LastCall(s).arg = 10 /\ LastCall(s).res > 0
              /\ IsRequestSend(cs[Len(cs) - 1])

\* an attempt went through all four steps and succeeded
C1_Witness ==
    \E s \in Socks : Done(s) /\ IPv4Attempt(s) /\ ret[s] = 0 /\ Len(calls[s]) = 5

(* ------------------------------------------------------------------ *)
(* C2                                                                  *)
(* ------------------------------------------------------------------ *)

\* C2: every failing redirected attempt has closed the socket when connect()
\* returns -1, whatever the cause (the failed connection to the proxy included).
C2_EveryFailureCloses ==
    \A s \in Socks :
        (Done(s) /\ IPv4Attempt(s) /\ real_connect /\ ret[s] = -1) => fd[s] = "closed"

(* ------------------------------------------------------------------ *)
(* C3                                                                  *)
(* ------------------------------------------------------------------ *)

\* the proxy connection succeeded, the handshake reply was exactly 05 00, the
\* request was sent and the proxy's reply carried reply code 0
Established(s) ==
    LET cs == calls[s] IN
    /\ Len(cs) = 5
    /\ cs[1].op = "connect" /\ cs[1].res = 0
    /\ IsHandshakeSend(cs[2]) /\ cs[2].res >= 0
    /\ IsAcceptedHandshake(cs[3])
    /\ IsRequestSend(cs[4]) /\ cs[4].res >= 0
    /\ cs[5].op = "recv" /\ Len(cs[5].data) >= 2 /\ cs[5].data[2] = 0

\* C3: a redirected attempt returns 0 exactly when it is fully established, and
\* -1 in every other outcome.
C3_NoPartialSuccess ==
    \A s \in Socks :
        (Done(s) /\ IPv4Attempt(s)) =>
            /\ ret[s] \in {0, -1}
            /\ (ret[s] = 0) <=> Established(s)

\* one attempt established, another refused by the proxy's reply code
C3_Witness ==
    \E s, t \in Socks :
        /\ Done(s) /\ IPv4Attempt(s) /\ ret[s] = 0 /\ Established(s)
        /\ Done(t) /\ IPv4Attempt(t) /\ ret[t] = -1
        /\ Len(ConnectReplyOf(t)) = 10 /\ ConnectReplyOf(t)[2] = 5

(* ------------------------------------------------------------------ *)
(* C4                                                                  *)
(* ------------------------------------------------------------------ *)

\* C4: for an IPv4 destination the underlying connect is called at most once per
\* attempt, and only with the proxy endpoint 127.0.0.1:9050.
C4_OnlyProxyOnce ==
    \A s \in Socks :
        IPv4Attempt(s) =>
            /\ Cardinality(CallsOf(s, "connect")) <= 1
            /\ \A i \in CallsOf(s, "connect") :
                  /\ calls[s][i].arg.family = "AF_INET"
                  /\ calls[s][i].arg.ip = <<127, 0, 0, 1>>
                  /\ ntohs(calls[s][i].arg.port) = 9050

\* an attempt failed after its one connection to the proxy, and has returned
C4_Witness ==
    \E s \in Socks :
        /\ Done(s) /\ IPv4Attempt(s) /\ ret[s] = -1 /\ fd[s] = "closed"
        /\ Cardinality(CallsOf(s, "connect")) = 1

(* ------------------------------------------------------------------ *)
(* C5                                                                  *)
(* ------------------------------------------------------------------ *)

\* C5: in every build a non-IPv4 destination is passed through: the one system
\* call is the underlying connect with the original address, and its result is
\* what connect() returns.
C5_PassthroughEveryVariant ==
    \A s \in Socks :
        (Done(s) /\ ~IPv4Attempt(s) /\ real_connect) =>
            /\ Len(calls[s]) = 1
            /\ calls[s][1].op = "connect"
            /\ calls[s][1].arg = addr[s]
            /\ ret[s] = calls[s][1].res

(* ------------------------------------------------------------------ *)
(* C6                                                                  *)
(* ------------------------------------------------------------------ *)

\* C6: when gethostbyname(name) returned address A to the thread before it called
\* connect() to A, the request it sends is the name form carrying that name.
C6_RequestCarriesResolvedName ==
    \A s \in Socks : \A i \in DOMAIN calls[s] : \A name \in HostNames :
        (/\ IsRequestSend(calls[s][i]) /\ SendsComplete(s)
         /\ <<name, addr[s].ip>> \in resolved[s]) =>
            LET req == calls[s][i].arg IN
            /\ req[4] = 3
            /\ req[5] = Len(name)
            /\ SubSeq(req, 6, 5 + Len(name)) = name

(* ------------------------------------------------------------------ *)
(* C7                                                                  *)
(* ------------------------------------------------------------------ *)

\* C7: an attempt whose handshake reply was 05 FF and one whose 2-byte handshake
\* reply did not start with 5 are reported to the caller as different outcomes.
C7_HandshakeFailuresDistinct ==
    \A s, t \in Socks :
        (/\ Done(s) /\ SendsComplete(s) /\ HandshakeReplyOf(s) = <<5, 255>>
         /\ Done(t) /\ SendsComplete(t)
         /\ Len(HandshakeReplyOf(t)) = 2 /\ HandshakeReplyOf(t)[1] # 5)
        => CallerSees(s) # CallerSees(t)

(* ------------------------------------------------------------------ *)
(* C8                                                                  *)
(* ------------------------------------------------------------------ *)

\* the attempt read a full 10-byte connect reply
FullReply(s) == Done(s) /\ SendsComplete(s) /\ Len(ConnectReplyOf(s)) = 10

\* C8: on a full reply, code 0 yields success, the codes 1..8 are reported with
\* pairwise distinct reasons, and all codes 9..255 with one other reason.
C8_ReplyCodesClassified ==
    \A s, t \in Socks :
        (FullReply(s) /\ FullReply(t)) =>
            LET a == ConnectReplyOf(s)[2]
                b == ConnectReplyOf(t)[2]
            IN /\ (a = 0) => ret[s] = 0
               /\ (a \in 1..8 /\ b \in 1..8 /\ a # b) => CallerSees(s) # CallerSees(t)
               /\ (a >= 9 /\ b >= 9) => CallerSees(s) = CallerSees(t)
               /\ (a >= 9 /\ b \in 0..8) => CallerSees(s) # CallerSees(t)

(* ------------------------------------------------------------------ *)
(* C9                                                                  *)
(* ------------------------------------------------------------------ *)

\* C9: when the read of the connect reply failed or returned fewer than the 10
\* bytes of the fixed header, the attempt fails: connect() returns -1.
C9_ShortReplyFails ==
    \A s \in Socks :
        (/\ Done(s) /\ Len(calls[s]) > 0 /\ SendsComplete(s)
         /\ LastCall(s).op = "recv" /\ LastCall(s).arg = 10 /\ LastCall(s).res < 10)
        => ret[s] = -1

(* ------------------------------------------------------------------ *)
(* C10                                                                 *)
(* ------------------------------------------------------------------ *)

\* C10: an attempt waiting for the handshake reply or for the connect reply
\* eventually ends, even if the proxy never sends anything.
C10_AttemptTerminates ==
    \A s \in Socks : (pc[s] \in {"hs_recv", "rep_recv"}) ~> Done(s)

(* ------------------------------------------------------------------ *)
(* The negotiation functions called on their own                       *)
(* ------------------------------------------------------------------ *)

\* char buffer[256] of both negotiation functions
BufferSize == 256

\* the longest hostname string handed to perform_socks5_domain_negotiation
MaxNameLen == 256

\* "example.com"
ExampleCom == <<101, 120, 97, 109, 112, 108, 101, 46, 99, 111, 109>>

\* a hostname of n letters
FillName(n) == [i \in 1..n |-> 97 + (i % 26)]

\* lengths around the limits of the length check
NameLens == {0, 1, 255 - 8, 255 - 7, 255 - 6, 255, MaxNameLen}

\* hostname arguments of perform_socks5_domain_negotiation
NameInputs == {ExampleCom} \cup { FillName(n) : n \in NameLens }

\* target_addr / port arguments of the negotiation functions
NegTargets ==
    { [family |-> "AF_INET", ip |-> <<1, 2, 3, 4>>, port |-> htons(p)] : p \in {443, 80} }

\* the socket the negotiation function is called with
NegSock == 3

\* perform_socks5_negotiation(sockfd, target_addr) or
\* perform_socks5_domain_negotiation(sockfd, hostname, port) is entered with
\* sockfd already connected to the proxy
NegInit ==
    /\ variant \in Variants
    /\ libsyms = {"connect"}
    /\ real_connect = TRUE
    /\ real_gethostbyname = FALSE
    /\ resolved = [s \in Socks |-> {}]
    /\ pc = [s \in Socks |-> IF s = NegSock THEN "hs_send" ELSE "idle"]
    /\ \E d \in NegTargets : addr = [s \in Socks |-> IF s = NegSock THEN d ELSE NoAddr]
    /\ \E n \in NameInputs :
          hostname = [s \in Socks |-> IF s = NegSock /\ variant = "DNS" THEN n ELSE <<>>]
    /\ buffer = [s \in Socks |-> <<>>]
    /\ inbound = [s \in Socks |-> <<>>]
    /\ rxState = [s \in Socks |-> "open"]
    /\ fd = [s \in Socks |-> IF s = NegSock THEN "connected" ELSE "unconnected"]
    /\ calls = [s \in Socks |-> IF s = NegSock THEN <<Call("connect", tor_addr, 0, <<>>)>>
                                               ELSE <<>>]
    /\ diag = [s \in Socks |-> <<>>]
    /\ ret = [s \in Socks |-> "none"]
    /\ errno = [s \in Socks |-> "none"]

NegNext ==
    \/ HandshakeSend(NegSock)
    \/ HandshakeRecv(NegSock)
    \/ RequestSend(NegSock)
    \/ ReplyRecv(NegSock)
    \/ Proxy(NegSock)

NegSpec == NegInit /\ [][NegNext]_vars

(* ------------------------------------------------------------------ *)
(* C11                                                                 *)
(* ------------------------------------------------------------------ *)

\* the handshake was accepted and the validate-build-send step has been taken
RequestStepTaken(s) ==
    /\ pc[s] # "req_send"
    /\ \E i \in DOMAIN calls[s] : IsAcceptedHandshake(calls[s][i])

RequestWasSent(s) == \E i \in DOMAIN calls[s] : IsRequestSend(calls[s][i])

\* C11: the name-form request accepts exactly the name lengths 1..255: for these
\* a request is sent, and for length 0 or 256 the attempt fails with no request.
C11_NameLengths1To255 ==
    (variant = "DNS" /\ RequestStepTaken(NegSock)) =>
        IF Len(hostname[NegSock]) \in 1..255
        THEN RequestWasSent(NegSock)
        ELSE ~RequestWasSent(NegSock) /\ Done(NegSock) /\ ret[NegSock] = -1

(* ------------------------------------------------------------------ *)
(* C12                                                                 *)
(* ------------------------------------------------------------------ *)

\* the port of the destination the application asked for, as a number
PortOf(s) == addr[s].port[1] * 256 + addr[s].port[2]

\* C12: in the IPv4 builds the connect request for destination a:p is exactly the
\* 10 bytes 05 01 00 01, the 4 bytes of a, then p big-endian; for 1.2.3.4:443
\* that is 05 01 00 01 01 02 03 04 01 BB.
C12_LiteralRequestBytes ==
    variant \in {"Only", "One"} =>
        \A s \in Socks : \A i \in DOMAIN calls[s] :
            IsRequestSend(calls[s][i]) =>
                LET req == calls[s][i].arg IN
                /\ Len(req) = 10
                /\ SubSeq(req, 1, 4) = <<5, 1, 0, 1>>
                /\ SubSeq(req, 5, 8) = addr[s].ip
                /\ req[9] = PortOf(s) \div 256
                /\ req[10] = PortOf(s) % 256
                /\ (addr[s].ip = <<1, 2, 3, 4>> /\ PortOf(s) = 443)
                      => req = <<5, 1, 0, 1, 1, 2, 3, 4, 1, 187>>

\* the whole request for 1.2.3.4:443 went out on a socket of an IPv4 build
C12_Witness ==
    /\ variant \in {"Only", "One"}
    /\ \E s \in Socks : \E i \in DOMAIN calls[s] :
          /\ IsRequestSend(calls[s][i]) /\ calls[s][i].res = 10
          /\ addr[s].ip = <<1, 2, 3, 4>> /\ PortOf(s) = 443

(* ------------------------------------------------------------------ *)
(* C13                                                                 *)
(* ------------------------------------------------------------------ *)

\* C13: for an accepted name n of length L and port p the name-form request is
\* exactly the 5+L+2 bytes 05 01 00 03, L, the bytes of n, then p big-endian
\* (ntohs followed by htons gives back the caller's network-order port); for
\* "example.com":80 that is 05 01 00 03 0B "example.com" 00 50.
C13_NameRequestBytes ==
    variant = "DNS" =>
        \A i \in DOMAIN calls[NegSock] :
            IsRequestSend(calls[NegSock][i]) =>
                LET req == calls[NegSock][i].arg
                    n   == hostname[NegSock]
                    L   == Len(n)
                    p   == PortOf(NegSock)
                IN
                /\ Len(req) = 5 + L + 2
                /\ SubSeq(req, 1, 4) = <<5, 1, 0, 3>>
                /\ req[5] = L
                /\ SubSeq(req, 6, 5 + L) = n
                /\ SubSeq(req, 6 + L, 7 + L) = <<p \div 256, p % 256>>
                /\ SubSeq(req, 6 + L, 7 + L) = addr[NegSock].port
                /\ (n = ExampleCom /\ p = 80)
                      => req = <<5, 1, 0, 3, 11>> \o ExampleCom \o <<0, 80>>

\* the whole request for "example.com":80 went out
C13_Witness ==
    /\ variant = "DNS"
    /\ \E i \in DOMAIN calls[NegSock] :
          /\ IsRequestSend(calls[NegSock][i])
          /\ calls[NegSock][i].res = Len(calls[NegSock][i].arg)
          /\ hostname[NegSock] = ExampleCom /\ PortOf(NegSock) = 80

(* ------------------------------------------------------------------ *)
(* C14                                                                 *)
(* ------------------------------------------------------------------ *)

\* C14: when an attempt is established, every byte of the proxy's reply has been
\* consumed, whatever the address type the reply declares (10 bytes for IPv4,
\* 4+1+N+2 for a name, 22 for IPv6): nothing of it is left in the socket for
\* the application to read.
C14_ReplyFullyConsumed ==
    \A s \in Socks :
        (Done(s) /\ ret[s] = 0 /\ Established(s)) => inbound[s] = <<>>

(* ------------------------------------------------------------------ *)
(* C15                                                                 *)
(* ------------------------------------------------------------------ *)

\* the contents buffer has after the first n calls of the socket, if nothing but
\* the socket's own request and the replies received on it was ever stored there
RECURSIVE OwnBuffer(_, _)
OwnBuffer(s, n) ==
    IF n = 0 THEN <<>>
    ELSE LET c == calls[s][n] IN
         IF c.op = "recv" THEN Overwrite(OwnBuffer(s, n - 1), c.data)
         ELSE IF IsRequestSend(c) THEN Overwrite(OwnBuffer(s, n - 1), c.arg)
         ELSE OwnBuffer(s, n - 1)

\* what the attempt observed on its own socket: the kind and result of each call
\* and the bytes each recv delivered
Observed(s) ==
    [i \in DOMAIN calls[s] |->
        <<calls[s][i].op, calls[s][i].res,
          IF calls[s][i].op = "recv" THEN calls[s][i].data ELSE <<>>>>]

\* C15: attempts on different sockets are isolated under every interleaving: the
\* request an attempt sends carries its own target, its buffer holds nothing
\* but its own request and replies, and two attempts that observed the same on
\* their own sockets have the same outcome whatever the other one did.
C15_AttemptsIsolated ==
    /\ \A s \in Socks : \A i \in DOMAIN calls[s] :
          IsRequestSend(calls[s][i]) =>
              LET req == calls[s][i].arg IN
              IF variant = "DNS"
              THEN /\ SubSeq(req, 6, Len(req) - 2) = inet_ntop(addr[s].ip)
                   /\ SubSeq(req, Len(req) - 1, Len(req)) = addr[s].port
              ELSE /\ SubSeq(req, 5, 8) = addr[s].ip
                   /\ SubSeq(req, 9, 10) = addr[s].port
    /\ \A s \in Socks : buffer[s] = OwnBuffer(s, Len(calls[s]))
    /\ \A s, t \in Socks :
          (/\ Done(s) /\ Done(t)
           /\ IPv4Attempt(s) = IPv4Attempt(t)
           /\ Observed(s) = Observed(t)) => CallerSees(s) = CallerSees(t)

\* two attempts with different targets both sent their whole request, and one
\* was established while the other failed
C15_Witness ==
    /\ Done(3) /\ Done(4)
    /\ IPv4Attempt(3) /\ IPv4Attempt(4) /\ addr[3] # addr[4]
    /\ SendsComplete(3) /\ SendsComplete(4)
    /\ \E i \in DOMAIN calls[3] : IsRequestSend(calls[3][i])
    /\ \E i \in DOMAIN calls[4] : IsRequestSend(calls[4][i])
    /\ ret[3] = 0 /\ ret[4] = -1

(* ------------------------------------------------------------------ *)
(* C16                                                                 *)
(* ------------------------------------------------------------------ *)

\* the attempt ended in failure with call number n, a close, as its last call
FailedAt(s, n) ==
    /\ Done(s) /\ ret[s] = -1
    /\ Len(calls[s]) = n /\ calls[s][n].op = "close"

\* the attempt went on to the request step after its third call
WentOnToRequest(s) ==
    \/ Len(calls[s]) = 3 /\ pc[s] = "req_send"
    \/ Len(calls[s]) >= 4 /\ IsRequestSend(calls[s][4])

\* C16: the handshake sends exactly the 3 bytes 05 01 00; it is accepted if and
\* only if the receive returned exactly 2 bytes and they are 05 00; a failed
\* handshake send, a shorter receive and every other reply fail the attempt.
C16_HandshakeAcceptance ==
    \A s \in Socks :
        (IPv4Attempt(s) /\ Len(calls[s]) >= 2 /\ calls[s][1].res = 0) =>
            /\ calls[s][2].op = "send"
            /\ calls[s][2].arg = <<5, 1, 0>>
            /\ calls[s][2].res < 0 => FailedAt(s, 3)
            /\ Len(calls[s]) >= 3 /\ calls[s][2].res >= 0 =>
                  LET c == calls[s][3] IN
                  /\ c.op = "recv" /\ c.arg = 2
                  /\ IF c.res = 2 /\ c.data = <<5, 0>>
                     THEN WentOnToRequest(s)
                     ELSE FailedAt(s, 4)

\* one attempt had its handshake accepted and sent its request, another was
\* failed by the two bytes 05 FF, which differ from 05 00 in the method only
C16_Witness ==
    \E s, t \in Socks :
        /\ Len(calls[s]) >= 4 /\ IsAcceptedHandshake(calls[s][3])
        /\ IsRequestSend(calls[s][4])
        /\ Len(calls[t]) = 4 /\ calls[t][3].op = "recv"
        /\ calls[t][3].data = <<5, 255>> /\ FailedAt(t, 4)

(* ------------------------------------------------------------------ *)
(* C17                                                                 *)
(* ------------------------------------------------------------------ *)

\* a call whose result fails its step: a send that returned an error, a
\* handshake receive of anything but the two bytes 05 00, a connect reply
\* without a second byte of 0
Failing(c) ==
    \/ c.op = "send" /\ c.res < 0
    \/ c.op = "recv" /\ c.arg = 2 /\ ~IsAcceptedHandshake(c)
    \/ c.op = "recv" /\ c.arg = 10 /\ (Len(c.data) < 2 \/ c.data[2] # 0)

ValidationFailed(s) ==
    Len(diag[s]) = 1 /\ diag[s][1] = "Invalid or too long hostname"

\* C17: Failed and Established are terminal and nothing is retried: a failed
\* step (handshake send, handshake reply, validation, request send, connect
\* reply) is followed by the close and by no further send or receive; no
\* attempt sends a second handshake or a second request, and a rejected
\* handshake reply is never followed by a request.
C17_NoRetryAfterFailure ==
    \A s \in Socks :
        /\ \A i \in DOMAIN calls[s] :
              /\ Failing(calls[s][i]) => FailedAt(s, i + 1)
              /\ calls[s][i].op = "close" => i = Len(calls[s])
        /\ ValidationFailed(s) => FailedAt(s, 4) /\ ~RequestWasSent(s)
        /\ Cardinality({ i \in DOMAIN calls[s] : IsHandshakeSend(calls[s][i]) }) <= 1
        /\ Cardinality({ i \in DOMAIN calls[s] : IsRequestSend(calls[s][i]) }) <= 1
        /\ Cardinality(CallsOf(s, "recv")) <= 2
        /\ (Done(s) /\ ret[s] = 0) => LastCall(s).op = "recv" /\ LastCall(s).arg = 10

\* an attempt whose handshake reply was rejected has ended with the close
C17_Witness ==
    /\ FailedAt(NegSock, 4)
    /\ calls[NegSock][3].op = "recv" /\ calls[NegSock][3].data = <<5, 255>>

(* ------------------------------------------------------------------ *)
(* C18                                                                 *)
(* ------------------------------------------------------------------ *)

\* C18: the socket is closed at most once per attempt and never on the success
\* path: when a redirected connect() returns 0 the socket is open and connected
\* to the proxy, and no attempt calls close twice.
C18_CloseAtMostOnce ==
    \A s \in Socks :
        /\ Cardinality(CallsOf(s, "close")) <= 1
        /\ fd[s] = "closed" <=> CallsOf(s, "close") # {}
        /\ (Done(s) /\ ret[s] = 0) => CallsOf(s, "close") = {}
        /\ (Done(s) /\ ret[s] = 0 /\ IPv4Attempt(s)) =>
              /\ fd[s] = "connected"
              /\ calls[s][1] = Call("connect", tor_addr, 0, <<>>)

\* one redirected attempt returned 0 and another one failed and was closed
C18_Witness ==
    \E s, t \in Socks :
        /\ Done(s) /\ ret[s] = 0 /\ IPv4Attempt(s) /\ fd[s] = "connected"
        /\ Done(t) /\ ret[t] = -1 /\ Cardinality(CallsOf(t, "close")) = 1

(* ------------------------------------------------------------------ *)
(* C19                                                                 *)
(* ------------------------------------------------------------------ *)

\* why the negotiation of a finished attempt failed, for the causes told apart
\* here: a failed send, a rejected handshake reply, a full reply with code 3, 4
\* or 5; <<"none", 0>> for every other attempt
Cause(s) ==
    IF ~(Done(s) /\ IPv4Attempt(s) /\ ret[s] = -1 /\ calls[s] # <<>>) THEN <<"none", 0>>
    ELSE IF calls[s][1].res # 0 THEN <<"none", 0>>
    ELSE IF \E i \in CallsOf(s, "send") : calls[s][i].res < 0 THEN <<"send", 0>>
    ELSE IF ~SendsComplete(s) THEN <<"none", 0>>
    ELSE IF Len(calls[s]) = 4 /\ Failing(calls[s][3]) /\ Len(calls[s][3].data) = 2
         THEN <<"handshake", 0>>
    ELSE IF Len(ConnectReplyOf(s)) = 10 /\ ConnectReplyOf(s)[2] \in {3, 4, 5}
         THEN <<"reply", ConnectReplyOf(s)[2]>>
    ELSE <<"none", 0>>

\* C19: negotiation failures with different causes (failed send, rejected
\* handshake, reply code 3, 4 or 5) are reported by connect() as -1 with
\* different errno values.
C19_ErrnoReflectsCause ==
    \A s, t \in Socks :
        (Cause(s) # <<"none", 0>> /\ Cause(t) # <<"none", 0>> /\ Cause(s) # Cause(t))
            => errno[s] # errno[t]

(* ------------------------------------------------------------------ *)
(* C20                                                                 *)
(* ------------------------------------------------------------------ *)

\* C20: every write into the 256-byte buffer stays in bounds: for a hostname
\* that passed validation the name-form request takes 5+L+2 <= 256 bytes and
\* its length byte at offset 4 is L itself, the literal-form request takes
\* exactly 10 bytes, and the buffer never holds a byte beyond its size.
C20_BufferWritesInBounds ==
    /\ Len(buffer[NegSock]) <= BufferSize
    /\ \A i \in DOMAIN calls[NegSock] :
          IsRequestSend(calls[NegSock][i]) =>
              LET req == calls[NegSock][i].arg
                  L   == Len(hostname[NegSock])
              IN IF variant = "DNS"
                 THEN /\ Len(req) = 5 + L + 2
                      /\ Len(req) <= BufferSize
                      /\ L <= 255
                      /\ req[5] = L
                 ELSE Len(req) = 10

\* the request for the longest name the validation lets through was written
\* to the buffer and sent: 255 bytes
C20_Witness ==
    \E i \in DOMAIN calls[NegSock] :
        /\ IsRequestSend(calls[NegSock][i])
        /\ variant = "DNS"
        /\ Len(hostname[NegSock]) = 255 - 7
        /\ Len(buffer[NegSock]) = 255

(* ------------------------------------------------------------------ *)
(* C21                                                                 *)
(* ------------------------------------------------------------------ *)

\* C21: whenever an attempt is established, the whole handshake (3 bytes) and
\* the whole connect request (10, or 5+L+2, bytes) were sent: no send that took
\* fewer bytes than it was given lies on the way to a connect() that returned 0.
C21_EstablishedSentEverything ==
    \A s \in Socks :
        (Done(s) /\ ret[s] = 0 /\ Established(s)) =>
            /\ SendsComplete(s)
            /\ calls[s][2].data = <<5, 1, 0>>
            /\ calls[s][4].data = calls[s][4].arg

====
